---- MODULE Spec2Model ----
(***************************************************************************)
(* Zeron (src/main.py): the browser window's tab collection, the JSON      *)
(* sidecar stores (bookmarks, history, settings), process start-up and     *)
(* shutdown, and the request path of the web-engine profile.               *)
(*                                                                         *)
(* Indices are 0-based as in the source (QTabWidget, Python lists);        *)
(* a sequence s holds the element of index i at s[i + 1].                  *)
(***************************************************************************)
EXTENDS Integers, Sequences, FiniteSets, TLC

VARIABLES
    phase,          \* "off": no process; "running": window shown; "crashed": import raised
    bookmarksFile,  \* zeron_data/bookmarks.json
    historyFile,    \* zeron_data/history.json
    settingsFile,   \* zeron_data/settings.json
    sessionFile,    \* a last-session document in the data directory
    BOOKMARKS,      \* module global, list of {title, url}
    HISTORY,        \* module global, list of url strings
    SETTINGS,       \* module global, dict
    pages,          \* tab_widget: the views in page order
    tab_buttons,    \* tab_strip.tab_buttons: the view each button is bound to
    currentIndex,   \* tab_widget.currentIndex(), -1 when there is no page
    pending,        \* fade-out animations running, oldest first
    url,            \* view.url().toString() of every view
    urlbar,         \* the address bar's text
    allocated,      \* number of QWebEngineView objects constructed by this process
    lastRequest,    \* the request the engine handled last, with its outcome
    shutdownTabs,   \* the tabs' urls and the active index when a process last quit
    lastOp,         \* the handler that ran last
    lastIndex,      \* the index it was called with, NoIndex when it takes none
    disk,           \* the data directory: "ok", "readonly" (open fails), "full" (write fails)
    load,           \* the engine's load of every view
    is_loading,     \* view._is_loading of every view, FALSE while the attribute is unset
    overlay,        \* loading_overlay.isVisible()
    timer           \* _overlay_timer.isActive()

vars == <<phase, bookmarksFile, historyFile, settingsFile, sessionFile,
          BOOKMARKS, HISTORY, SETTINGS, pages, tab_buttons, currentIndex,
          pending, url, urlbar, allocated, lastRequest, shutdownTabs, lastOp,
          lastIndex, disk, load, is_loading, overlay, timer>>

----------------------------------------------------------------------------
(* Bounds of the model *)
MaxViews == 3        \* views constructed per process
MaxPending == 2      \* fade-out animations running at once
MaxHistory == 2      \* history entries added on top of a short or a full list
MaxBookmarks == 1    \* bookmarks added on top of a short or a full list

(* Program constants *)
BOOKMARKS_CAP == 150
HISTORY_CAP == 2000

Views == 1..MaxViews
HOME_DEFAULT == "https://www.google.com"
PageURLs == {"https://a.example/"}
NoUrl == ""          \* url=None / an empty QUrl
NoIndex == -2

Min(a, b) == IF a < b THEN a ELSE b

(* list.pop(i) / removal of the element of index i *)
RemoveAt(s, i) == SubSeq(s, 1, i) \o SubSeq(s, i + 2, Len(s))
(* list.insert(0, x) *)
Prepend(x, s) == <<x>> \o s
(* s[:n] *)
Slice(s, n) == SubSeq(s, 1, Min(n, Len(s)))
(* QTabWidget.indexOf / list membership: 0-based index of x in s, -1 if absent *)
IndexIn(s, x) ==
    IF \E k \in 1..Len(s) : s[k] = x
    THEN (CHOOSE k \in 1..Len(s) : s[k] = x /\ \A j \in 1..(k - 1) : s[j] # x) - 1
    ELSE -1

----------------------------------------------------------------------------
(* Settings: a dict is a function on the keys, Missing where the key is absent *)
Missing == "<missing>"
SettingKeys == {"theme", "home_page", "show_bookmark_bar", "force_white_text", "zoom"}

DEFAULT_SETTINGS ==
    [k \in SettingKeys |->
        CASE k = "theme" -> "fluent_dark"
          [] k = "home_page" -> HOME_DEFAULT
          [] k = "show_bookmark_bar" -> "True"
          [] k = "force_white_text" -> "False"
          [] OTHER -> Missing]

EmptyDict == [k \in SettingKeys |-> Missing]

(* dict.get(key, default) *)
DictGet(d, k, default) == IF d[k] = Missing THEN default ELSE d[k]

----------------------------------------------------------------------------
(* Text of the address bar.  Strings are sequences of characters: s[i] is    *)
(* written SubSeq(s, i, i)                                                   *)
CharAt(s, i) == SubSeq(s, i, i)
(* the whitespace characters that occur in the texts explored *)
Whitespace == {" "}

(* str.strip() *)
RECURSIVE LStrip(_)
LStrip(s) == IF Len(s) > 0 /\ CharAt(s, 1) \in Whitespace THEN LStrip(Tail(s)) ELSE s
RECURSIVE RStrip(_)
RStrip(s) ==
    IF Len(s) > 0 /\ CharAt(s, Len(s)) \in Whitespace
    THEN RStrip(SubSeq(s, 1, Len(s) - 1)) ELSE s
Strip(s) == RStrip(LStrip(s))

(* c in s, for a character c *)
HasChar(c, s) == \E i \in 1..Len(s) : CharAt(s, i) = c

(* s.startswith(prefix) *)
StartsWith(s, prefix) == Len(s) >= Len(prefix) /\ SubSeq(s, 1, Len(prefix)) = prefix

(* s.replace(' ', '+') *)
RECURSIVE ReplaceSpaces(_)
ReplaceSpaces(s) ==
    IF Len(s) = 0 THEN s
    ELSE (IF CharAt(s, 1) = " " THEN "+" ELSE CharAt(s, 1)) \o ReplaceSpaces(Tail(s))

SEARCH_PREFIX == "https://www.google.com/search?q="

(* The url load_from_urlbar makes from the text, NoUrl when it returns early *)
urlbar_to_url(text) ==
    LET txt == Strip(text) IN
    IF txt = "" THEN NoUrl
    ELSE IF HasChar(" ", txt) \/ ~HasChar(".", txt)
         THEN SEARCH_PREFIX \o ReplaceSpaces(txt)
         ELSE IF StartsWith(txt, "http") THEN txt ELSE "https://" \o txt

----------------------------------------------------------------------------
(* Files: absent, present but not parsable, or holding a JSON document *)
AbsentFile(empty) == [kind |-> "absent", doc |-> empty]
CorruptFile(empty) == [kind |-> "corrupt", doc |-> empty]
OkFile(d) == [kind |-> "ok", doc |-> d]

(* load_json without its try/except: a file that does not parse raises *)
load_json_raising(file, default) ==
    [raised |-> (file.kind = "corrupt"),
     value |-> IF file.kind = "ok" THEN file.doc ELSE default]

(* load_json: the document if the file exists and parses, else the default; *)
(* the try/except swallows every failure, so nothing is raised              *)
load_json(file, default) ==
    [raised |-> FALSE,
     value |-> IF file.kind = "ok" THEN file.doc ELSE default]

(* What a save leaves on disk: the serialized data; the file as it was when   *)
(* open() fails; a truncated file when the write fails after open()          *)
Written(file, data) ==
    CASE disk = "ok" -> OkFile(data)
      [] disk = "readonly" -> file
      [] OTHER -> [file EXCEPT !.kind = "corrupt"]

(* The default document overlaid with the loaded one *)
load_settings_merged(file) ==
    [raised |-> FALSE,
     value |-> IF file.kind = "ok"
               THEN [k \in SettingKeys |->
                        IF file.doc[k] # Missing THEN file.doc[k] ELSE DEFAULT_SETTINGS[k]]
               ELSE DEFAULT_SETTINGS]

(* SETTINGS = load_json(SETTINGS_FILE, DEFAULT_SETTINGS.copy()): the loaded  *)
(* document as it is, the default document only when there is none           *)
load_settings(file) == load_json(file, DEFAULT_SETTINGS)

(* save_json without its try/except: a failed write raises to the caller *)
save_json_raising(file, data) ==
    [raised |-> (disk # "ok"), file |-> Written(file, data)]

(* save_json: the file is overwritten with the serialized data; the          *)
(* try/except swallows every failure, so nothing is raised                   *)
save_json(file, data) ==
    [raised |-> FALSE, file |-> Written(file, data)]

----------------------------------------------------------------------------
(* The window's tab state as one record, so that handlers compose *)
Win == [pages |-> pages, tab_buttons |-> tab_buttons, currentIndex |-> currentIndex,
        url |-> url, urlbar |-> urlbar, HISTORY |-> HISTORY, historyFile |-> historyFile,
        load |-> load, raised |-> FALSE]

(* on_tab_switched(index): the address bar shows the url of the page at index *)
on_tab_switched(w, index) ==
    IF 0 <= index /\ index < Len(w.pages)
    THEN [w EXCEPT !.urlbar = w.url[w.pages[index + 1]]]
    ELSE w

(* current_view() *)
current_view(w) ==
    IF 0 <= w.currentIndex /\ w.currentIndex < Len(w.pages)
    THEN w.pages[w.currentIndex + 1] ELSE 0

(* on_view_url_changed(view, qurl) *)
on_view_url_changed(w, view, u) ==
    LET h == Prepend(u, w.HISTORY)
        saved == save_json(w.historyFile, Slice(h, HISTORY_CAP))
    IN [w EXCEPT !.urlbar = IF view = current_view(w) THEN u ELSE w.urlbar,
                 !.HISTORY = h,
                 !.historyFile = saved.file,
                 !.raised = w.raised \/ saved.raised]

(* QWebEngineView.setUrl(url): the engine is asked to load the url, and      *)
(* urlChanged is emitted when the url differs                                *)
setUrl(w, view, u) ==
    LET w1 == [w EXCEPT !.load[view] = "queued"] IN
    IF w.url[view] # u
    THEN on_view_url_changed([w1 EXCEPT !.url[view] = u], view, u)
    ELSE w1

(* A setCurrentIndex that announces the index even when it is the current one *)
setCurrentIndexAlways(w, index) ==
    IF 0 <= index /\ index < Len(w.pages)
    THEN on_tab_switched([w EXCEPT !.currentIndex = index], index)
    ELSE w

(* QTabWidget.setCurrentIndex(index): currentChanged when it changes *)
setCurrentIndex(w, index) ==
    IF 0 <= index /\ index < Len(w.pages) /\ index # w.currentIndex
    THEN on_tab_switched([w EXCEPT !.currentIndex = index], index)
    ELSE w

(* ModernTabStrip.add_tab_button *)
add_tab_button(btns, view) == Append(btns, view)

(* add_tab that loads the configured home page when it is given no url *)
add_tab_home(w, view, u) ==
    LET w1 == [w EXCEPT !.pages = Append(w.pages, view),
                        !.url[view] = NoUrl]
        w2 == IF Len(w.pages) = 0 THEN on_tab_switched([w1 EXCEPT !.currentIndex = 0], 0)
              ELSE w1
        w3 == [w2 EXCEPT !.tab_buttons = add_tab_button(w2.tab_buttons, view)]
        w4 == setCurrentIndex(w3, Len(w3.pages) - 1)
    IN setUrl(w4, view, IF u # NoUrl THEN u ELSE DictGet(SETTINGS, "home_page", HOME_DEFAULT))

(* add_tab that never loads the url it is given *)
add_tab_blank(w, view, u) ==
    LET w1 == [w EXCEPT !.pages = Append(w.pages, view),
                        !.url[view] = NoUrl]
        w2 == IF Len(w.pages) = 0 THEN on_tab_switched([w1 EXCEPT !.currentIndex = 0], 0)
              ELSE w1
        w3 == [w2 EXCEPT !.tab_buttons = add_tab_button(w2.tab_buttons, view)]
    IN setCurrentIndex(w3, Len(w3.pages) - 1)

(* add_tab(url): a fresh view becomes the last page and the current one *)
add_tab(w, view, u) ==
    LET w1 == [w EXCEPT !.pages = Append(w.pages, view),
                        !.url[view] = NoUrl]
        \* QTabWidget.addTab makes the first page current
        w2 == IF Len(w.pages) = 0 THEN on_tab_switched([w1 EXCEPT !.currentIndex = 0], 0)
              ELSE w1
        w3 == [w2 EXCEPT !.tab_buttons = add_tab_button(w2.tab_buttons, view)]
        w4 == setCurrentIndex(w3, Len(w3.pages) - 1)
    IN IF u # NoUrl THEN setUrl(w4, view, u) ELSE w4

(* ModernTabStrip.remove_tab_button(idx) *)
remove_tab_button(btns, idx) ==
    IF 0 <= idx /\ idx < Len(btns) THEN RemoveAt(btns, idx) ELSE btns

(* QTabWidget.removeTab(index): out of range is ignored; the current index    *)
(* follows the current page, and when the current page goes the page to its  *)
(* right (else the new last page) becomes current                            *)
removeTab(w, index) ==
    IF index < 0 \/ index >= Len(w.pages) THEN w
    ELSE LET ps == RemoveAt(w.pages, index)
             c  == w.currentIndex
             nc == IF Len(ps) = 0 THEN -1
                   ELSE IF index < c THEN c - 1
                   ELSE IF index = c THEN Min(index, Len(ps) - 1)
                   ELSE c
             w1 == [w EXCEPT !.pages = ps, !.currentIndex = nc]
         IN IF index <= c THEN on_tab_switched(w1, nc) ELSE w1

(* What remove_tab(index) does at once: the early return, else the button   *)
(* goes and a fade-out of the page at index starts; its finished callback   *)
(* holds index                                                              *)
remove_tab_buttons(w, index) ==
    IF index < 0 \/ index >= Len(w.pages) THEN w.tab_buttons
    ELSE remove_tab_button(w.tab_buttons, index)

remove_tab_pending(w, pend, index) ==
    IF index < 0 \/ index >= Len(w.pages) THEN pend
    ELSE Append(pend, [index |-> index, widget |-> w.pages[index + 1],
                       count |-> Len(w.pages)])

----------------------------------------------------------------------------
(* Request urls and block rules, as sequences of characters *)
\* https://ads.doubleclick.net/track?x=1
UrlAdsDoubleclick ==
    <<"h","t","t","p","s",":","/","/","a","d","s",".","d","o","u","b","l",
      "e","c","l","i","c","k",".","n","e","t","/","t","r","a","c","k","?",
      "x","=","1">>
\* https://example.com/doubleclick.net-not-really
UrlRuleInPath ==
    <<"h","t","t","p","s",":","/","/","e","x","a","m","p","l","e",".","c",
      "o","m","/","d","o","u","b","l","e","c","l","i","c","k",".","n","e",
      "t","-","n","o","t","-","r","e","a","l","l","y">>
\* not a url
UrlNotAUrl ==
    <<"n","o","t"," ","a"," ","u","r","l">>
\* /ads/banner.png
UrlRelative ==
    <<"/","a","d","s","/","b","a","n","n","e","r",".","p","n","g">>
\* data:text/plain,ads
UrlNoAuthority ==
    <<"d","a","t","a",":","t","e","x","t","/","p","l","a","i","n",",","a",
      "d","s">>
\* https://example.com/
UrlPlain ==
    <<"h","t","t","p","s",":","/","/","e","x","a","m","p","l","e",".","c",
      "o","m","/">>
\* doubleclick.net
RuleDoubleclick ==
    <<"d","o","u","b","l","e","c","l","i","c","k",".","n","e","t">>
\* ads
RuleAds ==
    <<"a","d","s">>
\* example
RuleExample ==
    <<"e","x","a","m","p","l","e">>

RequestURLs ==
    {UrlAdsDoubleclick, UrlRuleInPath, UrlNotAUrl, UrlRelative, UrlNoAuthority, UrlPlain}
Rules == {RuleDoubleclick, RuleAds, RuleExample}
BlockSets == SUBSET Rules

(* pat occurs in s as a run of consecutive characters *)
IsSubstring(pat, s) ==
    \E i \in 1..(Len(s) - Len(pat) + 1) : SubSeq(s, i, i + Len(pat) - 1) = pat

(* 1-based position of the first occurrence of pat in s, 0 if there is none *)
Find(pat, s) ==
    IF IsSubstring(pat, s)
    THEN CHOOSE i \in 1..(Len(s) - Len(pat) + 1) :
            /\ SubSeq(s, i, i + Len(pat) - 1) = pat
            /\ \A j \in 1..(i - 1) : SubSeq(s, j, j + Len(pat) - 1) # pat
    ELSE 0

(* The hostname of a url: what stands between "scheme://" and the next "/", *)
(* "?" or "#"; the empty sequence when the url has no scheme or authority   *)
Hostname(u) ==
    LET p == Find(<<":", "/", "/">>, u)
        schemeOk == p > 1 /\ \A k \in 1..(p - 1) : u[k] \notin {"/", "?", "#", " ", ":"}
        rest == SubSeq(u, p + 3, Len(u))
        stops == {k \in 1..Len(rest) : rest[k] \in {"/", "?", "#"}}
        end == IF stops = {} THEN Len(rest)
               ELSE (CHOOSE k \in stops : \A j \in stops : k <= j) - 1
    IN IF schemeOk THEN SubSeq(rest, 1, end) ELSE <<>>

(* An interceptor that blocks when a rule occurs in the hostname *)
InterceptHostSubstring(u) ==
    IF \E r \in Rules : IsSubstring(r, Hostname(u)) THEN "Block" ELSE "Allow"
(* An interceptor that blocks when a rule occurs anywhere in the url *)
InterceptUrlSubstring(u) ==
    IF \E r \in Rules : IsSubstring(r, u) THEN "Block" ELSE "Allow"
(* An interceptor that raises on a url without a hostname *)
InterceptRaising(u) == IF Hostname(u) = <<>> THEN "Raise" ELSE "Allow"

----------------------------------------------------------------------------
(* The request path.  _setup_webengine configures the default profile (user *)
(* agent, settings, cache, cookies) and sets no request interceptor on it,  *)
(* so the engine lets every request proceed as issued.                      *)
InterceptRequest(u) == "Allow"

(* The engine's handling of one outgoing request *)
HandleRequest(u) ==
    LET verdict == InterceptRequest(u) IN
    [url |-> u, sent |-> u, verdict |-> verdict, aborted |-> (verdict = "Block")]

NoRequest == [url |-> <<>>, sent |-> <<>>, verdict |-> "none", aborted |-> FALSE]

----------------------------------------------------------------------------
(* Exploration windows: lists grow from short ones and from ones at the cap *)
HistRoom(h) ==
    \/ Len(h) < MaxHistory
    \/ HISTORY_CAP - 1 <= Len(h) /\ Len(h) < HISTORY_CAP + MaxHistory
BookRoom(b) ==
    \/ Len(b) < MaxBookmarks
    \/ BOOKMARKS_CAP - 1 <= Len(b) /\ Len(b) < BOOKMARKS_CAP + MaxBookmarks

NoTabs == [urls |-> <<>>, active_index |-> -1]
TabUrls == [i \in 1..Len(pages) |-> url[pages[i]]]

(* The part of a handler's result that is window state *)
SetWin(w) ==
    /\ pages' = w.pages
    /\ tab_buttons' = w.tab_buttons
    /\ currentIndex' = w.currentIndex
    /\ url' = w.url
    /\ urlbar' = w.urlbar
    /\ HISTORY' = w.HISTORY
    /\ historyFile' = w.historyFile
    /\ load' = w.load
    \* an exception escaping a handler ends the process
    /\ phase' = IF w.raised THEN "crashed" ELSE "running"

Files == <<bookmarksFile, historyFile, settingsFile, sessionFile>>
NoLoads == [v \in Views |-> "idle"]
NotLoading == [v \in Views |-> FALSE]
Indicator == <<is_loading, overlay, timer>>

----------------------------------------------------------------------------
(* An initial tab taken from a session document when there is one *)
InitialTabFromSession(settings, session) ==
    IF session.kind = "ok" /\ session.doc.urls # <<>>
    THEN session.doc.urls[1]
    ELSE DictGet(settings, "home_page", HOME_DEFAULT)

(* The url of the one tab __init__ opens: the home page of the settings; no  *)
(* session document is read                                                 *)
InitialTab(settings, session) == DictGet(settings, "home_page", HOME_DEFAULT)

(* Process start: the module-level loads, then ZeronMain.__init__, which     *)
(* applies the theme (saving the settings) and opens one tab at the home page *)
Startup ==
    /\ phase = "off"
    /\ LET bm == load_json(bookmarksFile, <<>>)
           hi == load_json(historyFile, <<>>)
           st == load_settings(settingsFile)
       IN IF bm.raised \/ hi.raised \/ st.raised
          THEN /\ phase' = "crashed"
               /\ lastOp' = "Startup" /\ lastIndex' = NoIndex
               /\ UNCHANGED <<Files, BOOKMARKS, HISTORY, SETTINGS, pages, tab_buttons,
                              currentIndex, pending, url, urlbar, allocated,
                              lastRequest, shutdownTabs, disk, load, Indicator>>
          ELSE LET theme == DictGet(st.value, "theme", "fluent_dark")
                   st2 == [st.value EXCEPT !["theme"] = theme]
                   w0 == [pages |-> <<>>, tab_buttons |-> <<>>, currentIndex |-> -1,
                          url |-> [v \in Views |-> NoUrl], urlbar |-> NoUrl,
                          HISTORY |-> hi.value, historyFile |-> historyFile,
                          load |-> NoLoads, raised |-> FALSE]
                   \* apply_theme ends with save_json(SETTINGS_FILE, SETTINGS)
                   themed == save_json(settingsFile, st2)
                   w1 == add_tab([w0 EXCEPT !.raised = themed.raised], 1,
                                 InitialTab(st2, sessionFile))
               IN /\ HistRoom(hi.value)
                  /\ BOOKMARKS' = bm.value
                  /\ SETTINGS' = st2
                  /\ settingsFile' = themed.file
                  /\ SetWin(w1)
                  /\ allocated' = 1
                  /\ pending' = <<>>
                  /\ lastRequest' = NoRequest
                  /\ is_loading' = NotLoading /\ overlay' = FALSE /\ timer' = FALSE
                  /\ lastOp' = "Startup" /\ lastIndex' = NoIndex
                  /\ UNCHANGED <<bookmarksFile, sessionFile, shutdownTabs, disk>>

(* The window is closed: aboutToQuit runs on_exit, the process ends *)
Exit ==
    /\ phase = "running"
    /\ LET b == save_json(bookmarksFile, BOOKMARKS)
           h == save_json(historyFile, HISTORY)
           s == save_json(settingsFile, SETTINGS)
       IN /\ bookmarksFile' = b.file
          /\ historyFile' = h.file
          /\ settingsFile' = s.file
          /\ phase' = IF b.raised \/ h.raised \/ s.raised THEN "crashed" ELSE "off"
    /\ shutdownTabs' = [urls |-> TabUrls, active_index |-> currentIndex]
    /\ BOOKMARKS' = <<>> /\ HISTORY' = <<>> /\ SETTINGS' = EmptyDict
    /\ pages' = <<>> /\ tab_buttons' = <<>> /\ currentIndex' = -1
    /\ pending' = <<>> /\ url' = [v \in Views |-> NoUrl] /\ urlbar' = NoUrl
    /\ allocated' = 0
    /\ lastRequest' = NoRequest
    /\ load' = NoLoads /\ is_loading' = NotLoading /\ overlay' = FALSE /\ timer' = FALSE
    /\ lastOp' = "Exit" /\ lastIndex' = NoIndex
    /\ UNCHANGED <<sessionFile, disk>>

(* The new-tab toolbar action and Ctrl+T: add_tab with no url *)
NewTab ==
    /\ phase = "running"
    /\ allocated < MaxViews
    /\ SetWin(add_tab(Win, allocated + 1, NoUrl))
    /\ allocated' = allocated + 1
    /\ lastOp' = "NewTab" /\ lastIndex' = NoIndex
    /\ UNCHANGED <<bookmarksFile, settingsFile, sessionFile, BOOKMARKS, SETTINGS,
                   pending, lastRequest, shutdownTabs, disk, Indicator>>

(* remove_tab(index) *)
RemoveTab(index) ==
    /\ phase = "running"
    /\ Len(pending) < MaxPending
    /\ tab_buttons' = remove_tab_buttons(Win, index)
    /\ pending' = remove_tab_pending(Win, pending, index)
    /\ lastOp' = "RemoveTab" /\ lastIndex' = index
    /\ UNCHANGED <<phase, Files, BOOKMARKS, HISTORY, SETTINGS, pages, currentIndex, url,
                   urlbar, allocated, lastRequest, shutdownTabs, disk, load, Indicator>>

(* Ctrl+W: remove_tab(self.tab_widget.currentIndex()) *)
CloseCurrentTab == RemoveTab(currentIndex)

(* The oldest fade-out finishes: its callback removes the page at the index *)
(* it holds                                                                 *)
FadeDone ==
    /\ phase = "running"
    /\ pending # <<>>
    /\ SetWin(removeTab(Win, Head(pending).index))
    /\ pending' = Tail(pending)
    /\ lastOp' = "FadeDone" /\ lastIndex' = NoIndex
    /\ UNCHANGED <<bookmarksFile, settingsFile, sessionFile, BOOKMARKS, SETTINGS,
                   allocated, lastRequest, shutdownTabs, disk, Indicator>>

(* A tab button is clicked: switch_to_tab(index) *)
SwitchToTab(index) ==
    /\ phase = "running"
    /\ SetWin(IF 0 <= index /\ index < Len(pages)
              THEN setCurrentIndex(Win, index) ELSE Win)
    /\ lastOp' = "SwitchToTab" /\ lastIndex' = index
    /\ UNCHANGED <<bookmarksFile, settingsFile, sessionFile, BOOKMARKS, SETTINGS,
                   pending, allocated, lastRequest, shutdownTabs, disk, Indicator>>

(* open_url(url), a bookmark button: the current view navigates *)
OpenUrl(u) ==
    /\ phase = "running"
    /\ HistRoom(HISTORY)
    /\ SetWin(IF current_view(Win) # 0 THEN setUrl(Win, current_view(Win), u) ELSE Win)
    /\ lastOp' = "OpenUrl" /\ lastIndex' = NoIndex
    /\ UNCHANGED <<bookmarksFile, settingsFile, sessionFile, BOOKMARKS, SETTINGS,
                   pending, allocated, lastRequest, shutdownTabs, disk, Indicator>>

(* The user edits the address bar *)
TypeUrlbar(text) ==
    /\ phase = "running"
    /\ text # urlbar
    /\ urlbar' = text
    /\ lastOp' = "TypeUrlbar" /\ lastIndex' = NoIndex
    /\ UNCHANGED <<phase, Files, BOOKMARKS, HISTORY, SETTINGS, pages, tab_buttons,
                   currentIndex, pending, url, allocated, lastRequest, shutdownTabs,
                   disk, load, Indicator>>

(* load_from_urlbar(), on Return in the address bar and on the Go button: the *)
(* current view loads the url made from the text and the overlay timer is     *)
(* started; nothing happens on an empty text or without a current view        *)
LoadFromUrlbar ==
    /\ phase = "running"
    /\ HistRoom(HISTORY)
    /\ LET u == urlbar_to_url(urlbar)
           v == current_view(Win)
       IN IF u # NoUrl /\ v # 0
          THEN SetWin(setUrl(Win, v, u)) /\ timer' = TRUE
          ELSE SetWin(Win) /\ timer' = timer
    /\ lastOp' = "LoadFromUrlbar" /\ lastIndex' = NoIndex
    /\ UNCHANGED <<bookmarksFile, settingsFile, sessionFile, BOOKMARKS, SETTINGS,
                   pending, allocated, lastRequest, shutdownTabs, disk, is_loading,
                   overlay>>

(* The engine's load of a view: "idle"; "queued", asked to load and          *)
(* loadStarted not yet emitted; "started"; "p100", loadProgress(100) emitted *)
(* and loadFinished not yet; "finished", loadFinished emitted ahead of       *)
(* loadProgress(100); "stopping", stopped and loadFinished(False) not yet    *)
(* emitted                                                                   *)
InFlight == {"queued", "started", "p100"}

(* A stop() that ends with loadFinished even when nothing was loading *)
stop_always(l) == "stopping"

(* QWebEngineView.stop(): a load in flight is aborted, else nothing happens *)
stop(l) == IF l \in InFlight THEN "stopping" ELSE l

(* _maybe_show_overlay(): the overlay is shown when the current view is loading *)
maybe_show_overlay ==
    LET v == current_view(Win) IN
    IF v # 0 /\ is_loading[v] THEN TRUE ELSE overlay

(* Window and store state that the load callbacks leave alone *)
TabsAndStores ==
    <<phase, Files, BOOKMARKS, HISTORY, SETTINGS, pages, tab_buttons, currentIndex,
      pending, url, urlbar, allocated, lastRequest, shutdownTabs, disk>>

(* loadStarted of a view: _on_load_start *)
LoadStart(view) ==
    /\ phase = "running"
    /\ load[view] = "queued"
    /\ load' = [load EXCEPT ![view] = "started"]
    /\ is_loading' = [is_loading EXCEPT ![view] = TRUE]
    \* _start_overlay_timer(): the running timer is stopped, a new one started
    /\ timer' = TRUE
    /\ lastOp' = "LoadStart" /\ lastIndex' = NoIndex
    /\ UNCHANGED <<TabsAndStores, overlay>>

(* loadProgress of a view: _on_load_progress *)
LoadProgress(view, progress) ==
    /\ phase = "running"
    /\ \/ load[view] = "started"
       \/ load[view] = "finished" /\ progress = 100
    /\ load' = [load EXCEPT ![view] =
                    IF progress < 100 THEN @
                    ELSE IF @ = "started" THEN "p100" ELSE "idle"]
    /\ overlay' = IF progress >= 100 THEN FALSE ELSE overlay
    /\ lastOp' = "LoadProgress" /\ lastIndex' = NoIndex
    /\ UNCHANGED <<TabsAndStores, is_loading, timer>>

(* loadFinished of a view: _on_load_finished.  A load that succeeds reports  *)
(* progress 100, before or after it finishes; a stopped load fails           *)
LoadFinished(view, ok) ==
    /\ phase = "running"
    /\ \/ load[view] \in {"started", "p100"}
       \/ load[view] = "stopping" /\ ~ok
    /\ load' = [load EXCEPT ![view] = IF @ = "started" /\ ok THEN "finished" ELSE "idle"]
    /\ is_loading' = [is_loading EXCEPT ![view] = FALSE]
    /\ overlay' = FALSE
    /\ lastOp' = "LoadFinished" /\ lastIndex' = NoIndex
    /\ UNCHANGED <<TabsAndStores, timer>>

(* The overlay timer fires: _maybe_show_overlay *)
OverlayTimeout ==
    /\ phase = "running"
    /\ timer
    /\ timer' = FALSE
    /\ overlay' = maybe_show_overlay
    /\ lastOp' = "OverlayTimeout" /\ lastIndex' = NoIndex
    /\ UNCHANGED <<TabsAndStores, load, is_loading>>

(* cancel_current_load(), the slot of the overlay's Cancel button *)
CancelCurrentLoad ==
    /\ phase = "running"
    /\ LET v == current_view(Win) IN
       load' = IF v # 0 THEN [load EXCEPT ![v] = stop(@)] ELSE load
    /\ overlay' = FALSE
    /\ lastOp' = "CancelCurrentLoad" /\ lastIndex' = NoIndex
    /\ UNCHANGED <<TabsAndStores, is_loading, timer>>

(* The Cancel button is clicked; it is part of the overlay *)
ClickCancel == overlay /\ CancelCurrentLoad

(* add_bookmark_current(); title is the page title the engine reports *)
AddBookmarkCurrent(title) ==
    /\ phase = "running"
    /\ BookRoom(BOOKMARKS)
    /\ LET v == current_view(Win)
           u == url[v]
           b == Prepend([title |-> IF title # "" THEN title ELSE u, url |-> u], BOOKMARKS)
           saved == save_json(bookmarksFile, Slice(b, BOOKMARKS_CAP))
       IN IF v = 0
          THEN UNCHANGED <<phase, BOOKMARKS, bookmarksFile>>
          ELSE /\ BOOKMARKS' = b
               /\ bookmarksFile' = saved.file
               /\ phase' = IF saved.raised THEN "crashed" ELSE phase
    /\ lastOp' = "AddBookmarkCurrent" /\ lastIndex' = NoIndex
    /\ UNCHANGED <<historyFile, settingsFile, sessionFile, HISTORY, SETTINGS, pages,
                   tab_buttons, currentIndex, pending, url, urlbar, allocated,
                   lastRequest, shutdownTabs, disk, load, Indicator>>

(* The engine issues a request on behalf of a page *)
EngineRequest(u) ==
    /\ phase = "running"
    /\ lastRequest' = HandleRequest(u)
    \* an exception escaping the callback ends the process
    /\ phase' = IF HandleRequest(u).verdict = "Raise" THEN "crashed" ELSE phase
    /\ lastOp' = "EngineRequest" /\ lastIndex' = NoIndex
    /\ UNCHANGED <<Files, BOOKMARKS, HISTORY, SETTINGS, pages, tab_buttons,
                   currentIndex, pending, url, urlbar, allocated, shutdownTabs,
                   disk, load, Indicator>>

(* str.endswith("dark") on the theme names *)
EndsWithDark(theme) == theme \in {"fluent_dark", "dark"}

(* not x, on the truth values as they are stored: a missing value never gets here *)
Not(b) == IF b = "True" THEN "False" ELSE "True"

(* A handler that changes the settings and saves them with one or two calls   *)
(* of save_json; nothing else changes                                         *)
SettingsHandler(name, st, saves) ==
    LET first == save_json(settingsFile, st)
        second == IF saves = 2 THEN save_json(first.file, st) ELSE first
    IN /\ phase = "running"
       /\ SETTINGS' = st
       /\ settingsFile' = second.file
       /\ phase' = IF first.raised \/ second.raised THEN "crashed" ELSE phase
       /\ lastOp' = name /\ lastIndex' = NoIndex
       /\ UNCHANGED <<bookmarksFile, historyFile, sessionFile, BOOKMARKS, HISTORY, pages,
                      tab_buttons, currentIndex, pending, url, urlbar, allocated,
                      lastRequest, shutdownTabs, disk, load, Indicator>>

(* toggle_theme(): the theme is set and saved, then apply_theme sets and     *)
(* saves it again                                                            *)
ToggleTheme ==
    LET cur == DictGet(SETTINGS, "theme", "fluent_dark")
        nxt == IF EndsWithDark(cur) THEN "fluent_light" ELSE "fluent_dark"
    IN SettingsHandler("ToggleTheme", [SETTINGS EXCEPT !["theme"] = nxt], 2)

(* _toggle_bookmarkbar() *)
ToggleBookmarkBar ==
    LET shown == DictGet(SETTINGS, "show_bookmark_bar", "True")
    IN SettingsHandler("ToggleBookmarkBar",
                       [SETTINGS EXCEPT !["show_bookmark_bar"] = Not(shown)], 1)

(* _reset_settings() *)
ResetSettings == SettingsHandler("ResetSettings", DEFAULT_SETTINGS, 1)

(* The data directory becomes unwritable, fills up, or recovers *)
DiskChange(d) ==
    /\ d # disk
    /\ disk' = d
    /\ lastOp' = "DiskChange" /\ lastIndex' = NoIndex
    /\ UNCHANGED <<phase, Files, BOOKMARKS, HISTORY, SETTINGS, pages, tab_buttons,
                   currentIndex, pending, url, urlbar, allocated, lastRequest,
                   shutdownTabs, load, Indicator>>

----------------------------------------------------------------------------
(* What the disk may hold when a process starts *)
Repeat(x, n) == [i \in 1..n |-> x]
OldBookmark == [title |-> "Old", url |-> "https://a.example/"]
OldUrl == "https://a.example/"

CustomHome == [EmptyDict EXCEPT !["home_page"] = "https://b.example/"]
ExtraKey == [DEFAULT_SETTINGS EXCEPT !["zoom"] = "1.5", !["theme"] = "fluent_light"]

SettingsFiles ==
    {AbsentFile(EmptyDict), CorruptFile(EmptyDict), OkFile(CustomHome), OkFile(ExtraKey)}
SessionFiles ==
    {AbsentFile(NoTabs), CorruptFile(NoTabs), OkFile([urls |-> <<>>, active_index |-> 0]),
     OkFile([urls |-> <<"https://a.example/", "https://b.example/">>, active_index |-> 1])}
BookmarkFiles ==
    {AbsentFile(<<>>), CorruptFile(<<>>),
     OkFile(Repeat(OldBookmark, BOOKMARKS_CAP - 1)), OkFile(Repeat(OldBookmark, BOOKMARKS_CAP))}
HistoryFiles ==
    {AbsentFile(<<>>), CorruptFile(<<>>),
     OkFile(Repeat(OldUrl, HISTORY_CAP - 1)), OkFile(Repeat(OldUrl, HISTORY_CAP))}

InitProcess ==
    /\ phase = "off"
    /\ BOOKMARKS = <<>> /\ HISTORY = <<>> /\ SETTINGS = EmptyDict
    /\ pages = <<>> /\ tab_buttons = <<>> /\ currentIndex = -1
    /\ pending = <<>> /\ url = [v \in Views |-> NoUrl] /\ urlbar = NoUrl
    /\ allocated = 0
    /\ lastRequest = NoRequest
    /\ shutdownTabs = NoTabs
    /\ lastOp = "none" /\ lastIndex = NoIndex
    /\ disk = "ok"
    /\ load = NoLoads /\ is_loading = NotLoading /\ overlay = FALSE /\ timer = FALSE

(* The window and its tabs within one process *)
Init ==
    /\ InitProcess
    /\ bookmarksFile = AbsentFile(<<>>)
    /\ historyFile = AbsentFile(<<>>)
    /\ settingsFile \in {AbsentFile(EmptyDict), OkFile(CustomHome)}
    /\ sessionFile = AbsentFile(NoTabs)

Next ==
    \/ Startup
    \/ NewTab
    \/ CloseCurrentTab
    \/ FadeDone
    \/ \E i \in -1..Len(pages) : SwitchToTab(i)
    \/ \E u \in PageURLs : OpenUrl(u)

Spec == Init /\ [][Next]_vars

(* Processes one after the other: tabs opened, the window closed, the next start *)
InitSession ==
    /\ InitProcess
    /\ bookmarksFile = AbsentFile(<<>>)
    /\ historyFile = AbsentFile(<<>>)
    /\ settingsFile \in {AbsentFile(EmptyDict), OkFile(CustomHome)}
    /\ sessionFile \in SessionFiles

NextSession ==
    \/ Startup
    \/ Exit
    \/ NewTab
    \/ \E i \in -1..Len(pages) : SwitchToTab(i)
    \/ \E u \in PageURLs : OpenUrl(u)

SpecSession == InitSession /\ [][NextSession]_vars

(* The stores, from any combination of absent, corrupt, short and full files *)
InitStore ==
    /\ InitProcess
    /\ bookmarksFile \in BookmarkFiles
    /\ historyFile \in HistoryFiles
    /\ settingsFile \in SettingsFiles
    /\ sessionFile = AbsentFile(NoTabs)

NextStore ==
    \/ Startup
    \/ Exit
    \/ \E u \in PageURLs : OpenUrl(u)
    \/ \E t \in {"", "Page"} : AddBookmarkCurrent(t)

SpecStore == InitStore /\ [][NextStore]_vars

(* The request path, under every kind of settings and history file *)
InitNet ==
    /\ InitProcess
    /\ bookmarksFile = AbsentFile(<<>>)
    /\ historyFile \in {AbsentFile(<<>>), CorruptFile(<<>>)}
    /\ settingsFile \in SettingsFiles
    /\ sessionFile = AbsentFile(NoTabs)

NextNet ==
    \/ Startup
    \/ Exit
    \/ NewTab
    \/ \E u \in PageURLs : OpenUrl(u)
    \/ \E u \in RequestURLs : EngineRequest(u)

SpecNet == InitNet /\ [][NextNet]_vars

(* The address bar: typing, loading what was typed, and the tabs *)
TypedTexts ==
    {"", "  ", "zeron", "two words", "a.example", " a.example ", "http://a.example",
     "https://a.example/", "http.cat"}

NextBar ==
    \/ Startup
    \/ NewTab
    \/ \E i \in -1..Len(pages) : SwitchToTab(i)
    \/ \E t \in TypedTexts : TypeUrlbar(t)
    \/ LoadFromUrlbar

SpecBar == Init /\ [][NextBar]_vars

(* Tab switches while the address bar is edited and tabs open and close *)
NextSwitch ==
    \/ Startup
    \/ NewTab
    \/ CloseCurrentTab
    \/ FadeDone
    \/ \E i \in -1..Len(pages) : SwitchToTab(i)
    \/ TypeUrlbar("zeron")

SpecSwitch == Init /\ [][NextSwitch]_vars

(* Loads, the overlay and its timer, while tabs open, close and switch *)
Progresses == {50, 100}

EngineEvents ==
    \/ \E v \in 1..allocated : LoadStart(v)
    \/ \E v \in 1..allocated, p \in Progresses : LoadProgress(v, p)
    \/ \E v \in 1..allocated, ok \in BOOLEAN : LoadFinished(v, ok)
    \/ OverlayTimeout

NextLoad ==
    \/ Startup
    \/ NewTab
    \/ CloseCurrentTab
    \/ FadeDone
    \/ \E i \in -1..Len(pages) : SwitchToTab(i)
    \/ \E u \in PageURLs : OpenUrl(u)
    \/ EngineEvents
    \/ ClickCancel

SpecLoad == Init /\ [][NextLoad]_vars

(* cancel_current_load() called in any state of the window *)
NextCancel ==
    \/ Startup
    \/ NewTab
    \/ \E u \in PageURLs : OpenUrl(u)
    \/ EngineEvents
    \/ CancelCurrentLoad

SpecCancel == Init /\ [][NextCancel]_vars

(* The saves of every handler, on a disk that may refuse or cut a write *)
DiskStates == {"ok", "readonly", "full"}

InitSave ==
    /\ InitProcess
    /\ bookmarksFile = AbsentFile(<<>>)
    /\ historyFile = AbsentFile(<<>>)
    /\ settingsFile = AbsentFile(EmptyDict)
    /\ sessionFile = AbsentFile(NoTabs)

NextSave ==
    \/ Startup
    \/ Exit
    \/ \E u \in PageURLs : OpenUrl(u)
    \/ AddBookmarkCurrent("Page")
    \/ ToggleTheme
    \/ ToggleBookmarkBar
    \/ ResetSettings
    \/ \E d \in DiskStates : DiskChange(d)

SpecSave == InitSave /\ [][NextSave]_vars

----------------------------------------------------------------------------
(* C1: while the window is open the tab sequence is never empty: closing the *)
(* only remaining tab closes the window instead of leaving zero tabs         *)
C1_TabsNeverEmpty == phase = "running" => Len(pages) >= 1

(* C2: when the close of a tab requested at a valid index of more than one   *)
(* tab completes, the tabs left are exactly the other tabs in their previous *)
(* order, and the active index is a valid offset into them                   *)
C2_CloseKeepsOthers ==
    [][(phase = "running" /\ pending # <<>> /\ pending' = Tail(pending)
            /\ lastOp' = "FadeDone" /\ Head(pending).count > 1)
        => /\ pages' = SelectSeq(pages, LAMBDA v : v # Head(pending).widget)
           /\ currentIndex' \in 0..(Len(pages') - 1)]_vars

----------------------------------------------------------------------------
----------------------------------------------------------------------------
HomePage == DictGet(SETTINGS, "home_page", HOME_DEFAULT)
OpenTabs == [urls |-> TabUrls, active_index |-> currentIndex]
JustStarted == phase = "running" /\ lastOp = "Startup"

C7_HomeTabWithoutSession ==
    /\ phase # "crashed"
    /\ (JustStarted /\ (sessionFile.kind # "ok" \/ sessionFile.doc.urls = <<>>))
         => /\ Len(pages) = 1
            /\ url[pages[1]] = HomePage
            /\ currentIndex = 0

C7_Witness ==
    /\ JustStarted
    /\ sessionFile.kind = "corrupt"
    /\ Len(pages) = 1 /\ url[pages[1]] = HomePage /\ HomePage # HOME_DEFAULT

(* C8: a bookmark added is entry 0 of the list, and the stored list never    *)
(* holds more than 150 entries                                               *)
C8_PrependedAndCapped ==
    /\ (lastOp = "AddBookmarkCurrent" /\ current_view(Win) # 0)
         => (BOOKMARKS # <<>> /\ BOOKMARKS[1].url = url[current_view(Win)])
    /\ bookmarksFile.kind = "ok" => Len(bookmarksFile.doc) <= BOOKMARKS_CAP

(* C9: the url of a navigation is entry 0 of the history, and the stored     *)
(* history never holds more than 2000 entries                                *)
C9_PrependedAndCapped ==
    /\ (phase = "running" /\ lastOp \in {"Startup", "OpenUrl"} /\ current_view(Win) # 0)
         => (HISTORY # <<>> /\ HISTORY[1] = url[current_view(Win)])
    /\ historyFile.kind = "ok" => Len(historyFile.doc) <= HISTORY_CAP

(* C10: at start-up each store whose file is absent or does not parse gets   *)
(* its default, each store whose file parses gets its document, whatever the *)
(* state of the other files, and the start-up goes through                   *)
C10_LoadFailOpen ==
    [][(phase = "off" /\ lastOp' = "Startup")
        => /\ phase' = "running"
           /\ BOOKMARKS' = IF bookmarksFile.kind = "ok" THEN bookmarksFile.doc ELSE <<>>
           /\ Tail(HISTORY') = IF historyFile.kind = "ok" THEN historyFile.doc ELSE <<>>
           /\ IF settingsFile.kind = "ok"
              THEN \A k \in SettingKeys \ {"theme"} : SETTINGS'[k] = settingsFile.doc[k]
              ELSE SETTINGS' = DEFAULT_SETTINGS]_vars

C10_Witness ==
    /\ JustStarted
    /\ bookmarksFile.kind = "corrupt" /\ BOOKMARKS = <<>>
    /\ Len(HISTORY) >= HISTORY_CAP
    /\ SETTINGS["zoom"] # Missing

----------------------------------------------------------------------------
SavingOps ==
    {"Startup", "Exit", "OpenUrl", "AddBookmarkCurrent", "ToggleTheme",
     "ToggleBookmarkBar", "ResetSettings"}

(* The file is as it was, or was cut short: nothing new was persisted *)
NotPersisted(before, after) == after = before \/ after = [before EXCEPT !.kind = "corrupt"]

(* C11: while writes to the data directory fail, no handler that saves ends  *)
(* the process, every handler leaves in memory what it leaves when the write *)
(* succeeds (the bookmark added, the url recorded, the setting changed, the  *)
(* process started or quit), and nothing new reaches the files               *)
C11_SaveFailureSwallowed ==
    [][(disk # "ok" /\ lastOp' \in SavingOps)
        => /\ phase' # "crashed"
           /\ NotPersisted(bookmarksFile, bookmarksFile')
           /\ NotPersisted(historyFile, historyFile')
           /\ NotPersisted(settingsFile, settingsFile')
           /\ lastOp' = "AddBookmarkCurrent" =>
                /\ Tail(BOOKMARKS') = BOOKMARKS
                /\ BOOKMARKS'[1].url = url[current_view(Win)]
           /\ lastOp' = "OpenUrl" =>
                /\ url'[current_view(Win)] \in PageURLs
                /\ HISTORY' = IF url'[current_view(Win)] # url[current_view(Win)]
                              THEN Prepend(url'[current_view(Win)], HISTORY) ELSE HISTORY
           /\ lastOp' = "ToggleTheme" =>
                /\ SETTINGS'["theme"] # SETTINGS["theme"]
                /\ \A k \in SettingKeys \ {"theme"} : SETTINGS'[k] = SETTINGS[k]
           /\ lastOp' = "ToggleBookmarkBar" =>
                /\ SETTINGS'["show_bookmark_bar"]
                     = Not(DictGet(SETTINGS, "show_bookmark_bar", "True"))
                /\ \A k \in SettingKeys \ {"show_bookmark_bar"} : SETTINGS'[k] = SETTINGS[k]
           /\ lastOp' = "ResetSettings" => SETTINGS' = DEFAULT_SETTINGS
           /\ lastOp' = "Startup" =>
                /\ phase' = "running"
                /\ Len(pages') = 1
                /\ HISTORY'[1] = url'[pages'[1]]
           /\ lastOp' = "Exit" => phase' = "off"]_vars

C11_Witness ==
    /\ lastOp = "AddBookmarkCurrent"
    /\ phase = "running"
    /\ disk = "full"
    /\ bookmarksFile.kind = "corrupt"
    /\ Len(BOOKMARKS) = 1

----------------------------------------------------------------------------
DefaultKeys == {k \in SettingKeys : DEFAULT_SETTINGS[k] # Missing}
StartsFrom(kinds) == phase = "off" /\ lastOp' = "Startup" /\ settingsFile.kind \in kinds

(* C12 as stated: after the load the settings in memory are the default      *)
(* document overlaid with the loaded one: a default key missing from the     *)
(* file is in memory with its default value, and a key of the file that is   *)
(* not a default key is kept                                                 *)
C12_DefaultsOverlaid ==
    [][StartsFrom({"ok"})
        => /\ \A k \in DefaultKeys :
                settingsFile.doc[k] = Missing => SETTINGS'[k] = DEFAULT_SETTINGS[k]
           /\ \A k \in SettingKeys \ DefaultKeys :
                SETTINGS'[k] = settingsFile.doc[k]]_vars

(* C12 amended: nothing is overlaid.  The settings in memory are the loaded  *)
(* document as it is, the default document only when the file is absent or   *)
(* unreadable: a key of the file that is not a default key is kept, and a    *)
(* default key missing from the file is missing in memory too, save for the  *)
(* theme, which start-up sets; every read of a missing key falls back to the *)
(* default value at the point of use, and the file start-up writes back      *)
(* holds the document in memory, without the missing keys                    *)
C12_LoadedAsIs ==
    [][/\ StartsFrom({"ok"})
            => /\ \A k \in SettingKeys \ {"theme"} : SETTINGS'[k] = settingsFile.doc[k]
               /\ SETTINGS'["theme"] = DictGet(settingsFile.doc, "theme", "fluent_dark")
               /\ \A k \in DefaultKeys :
                    settingsFile.doc[k] = Missing
                        => DictGet(SETTINGS', k, DEFAULT_SETTINGS[k]) = DEFAULT_SETTINGS[k]
               /\ settingsFile' = OkFile(SETTINGS')
       /\ StartsFrom({"absent", "corrupt"}) => SETTINGS' = DEFAULT_SETTINGS]_vars

C12_Witness ==
    /\ JustStarted
    /\ SETTINGS["home_page"] = CustomHome["home_page"]
    /\ SETTINGS["show_bookmark_bar"] = Missing
    /\ SETTINGS["force_white_text"] = Missing
    /\ SETTINGS["theme"] = "fluent_dark"

----------------------------------------------------------------------------
ValidIndex(i) == 0 <= i /\ i < Len(pages)
TabsAndBar == <<pages, tab_buttons, currentIndex, url, urlbar>>

(* C13 as stated: switch(index) with an index out of bounds changes neither  *)
(* the active tab nor the address bar; with a valid index that tab is active *)
(* afterwards and the address bar shows its url                              *)
C13_SwitchShowsUrl ==
    [][lastOp' = "SwitchToTab"
        => IF ValidIndex(lastIndex')
           THEN /\ currentIndex' = lastIndex'
                /\ urlbar' = url'[pages'[lastIndex' + 1]]
           ELSE UNCHANGED <<currentIndex, urlbar>>]_vars

(* C13 amended: switch(index) with an index out of bounds, or with the index *)
(* of the tab that is active already, changes nothing: the address bar keeps *)
(* its text, edited or not; with the index of another tab that tab is active *)
(* afterwards and the address bar shows its url                              *)
C13_SwitchToOtherShowsUrl ==
    [][lastOp' = "SwitchToTab"
        => IF ValidIndex(lastIndex') /\ lastIndex' # currentIndex
           THEN /\ currentIndex' = lastIndex'
                /\ urlbar' = url[pages[lastIndex' + 1]]
                /\ UNCHANGED <<pages, tab_buttons, url>>
           ELSE UNCHANGED TabsAndBar]_vars

C13_Witness ==
    /\ lastOp = "SwitchToTab"
    /\ lastIndex = currentIndex
    /\ Len(pages) >= 2
    /\ urlbar = "zeron"
    /\ urlbar # url[current_view(Win)]

----------------------------------------------------------------------------
OpensTab == lastOp' \in {"Startup", "NewTab"} /\ phase' = "running"
NewView == pages'[Len(pages')]
AppendedAndActive ==
    /\ pages' = Append(IF lastOp' = "Startup" THEN <<>> ELSE pages, allocated')
    /\ tab_buttons' = Append(IF lastOp' = "Startup" THEN <<>> ELSE tab_buttons, allocated')
    /\ currentIndex' = Len(pages') - 1

(* C14 as stated: open(url) appends a tab at the end of the tab sequence,    *)
(* makes it the active tab and starts loading url; the new-tab action and    *)
(* Ctrl+T, which give no url, start loading the configured home page         *)
C14_OpenLoadsUrlOrHome ==
    [][OpensTab
        => /\ AppendedAndActive
           /\ url'[NewView] = HomePage'
           /\ load'[NewView] = "queued"]_vars

(* C14 amended: open(url) appends a tab at the end of the tab sequence and   *)
(* makes it the active tab; with a url (start-up, with the configured home   *)
(* page) it starts loading it; without one (the new-tab action, Ctrl+T) it   *)
(* loads nothing: the new tab has no url and the address bar is emptied      *)
C14_OpenLoadsUrlOrNothing ==
    [][OpensTab
        => /\ AppendedAndActive
           /\ lastOp' = "Startup" =>
                /\ url'[NewView] = HomePage'
                /\ load'[NewView] = "queued"
                /\ urlbar' = HomePage'
           /\ lastOp' = "NewTab" =>
                /\ url'[NewView] = NoUrl
                /\ load'[NewView] = "idle"
                /\ urlbar' = NoUrl]_vars

C14_Witness ==
    /\ lastOp = "NewTab"
    /\ Len(pages) >= 2
    /\ currentIndex = Len(pages) - 1
    /\ url[pages[1]] = HomePage
    /\ url[pages[Len(pages)]] = NoUrl
    /\ urlbar = NoUrl

----------------------------------------------------------------------------
(* C15: once progress 100 was reported for a view's load, the overlay is     *)
(* hidden and stays hidden until the next loadStarted, whether or not        *)
(* loadFinished has arrived and even if the overlay timer fires afterwards.  *)
(* Stated for a view at progress 100 while no other view was ever asked to   *)
(* load, so that no loadStarted can have come since                          *)
C15_HiddenAfterProgress100 ==
    \A v \in Views :
        (load[v] = "p100" /\ \A w \in Views \ {v} : url[w] = NoUrl) => ~overlay

NothingToCancel(w, l) == current_view(w) = 0 \/ l[current_view(w)] \notin InFlight

(* C16: cancelling is idempotent.  A cancel never ends the process and       *)
(* leaves the current view with no load in flight and the overlay hidden;    *)
(* a cancel in such a state (the load finished, was cancelled already, or    *)
(* never began) changes nothing: not the tabs, not any view's load or        *)
(* loading flag, and the overlay stays hidden                                *)
C16_CancelIdempotent ==
    [][lastOp' = "CancelCurrentLoad"
        => /\ phase' = "running"
           /\ ~overlay'
           /\ NothingToCancel(Win, load')
           /\ NothingToCancel(Win, load)
                => UNCHANGED <<pages, tab_buttons, currentIndex, url, urlbar, load,
                               is_loading, timer>>]_vars

C16_Witness ==
    /\ lastOp = "CancelCurrentLoad"
    /\ current_view(Win) # 0
    /\ url[current_view(Win)] # NoUrl
    /\ load[current_view(Win)] = "idle"
    /\ ~is_loading[current_view(Win)]
    /\ ~overlay

(* C17: once no fade-out is pending, the strip holds one button per page, in *)
(* the order of the pages and bound to the same view at every index          *)
C17_StripMatchesPages ==
    (phase = "running" /\ pending = <<>>) => tab_buttons = pages

(* C18: whenever the overlay is visible there is a current view and it is    *)
(* loading: its load has started and has not finished                        *)
C18_OverlayMeansLoading ==
    overlay => (current_view(Win) # 0 /\ is_loading[current_view(Win)])


----------------------------------------------------------------------------
IsBlank(text) == \A i \in 1..Len(text) : CharAt(text, i) \in Whitespace
HasScheme(text) == StartsWith(text, "http://") \/ StartsWith(text, "https://")

(* C19: load_from_urlbar loads nothing on an empty or whitespace-only text;  *)
(* a text that, trimmed, contains a space or no dot is loaded as a Google    *)
(* search url; every other text is loaded as a url that begins with http://  *)
(* or https://, https:// being put in front of a text without a scheme       *)
C19_UrlbarNormalised ==
    [][(lastOp' = "LoadFromUrlbar" /\ current_view(Win) # 0)
        => LET txt == Strip(urlbar)
               loaded == url'[current_view(Win)]
           IN IF IsBlank(urlbar)
              THEN UNCHANGED <<url, load, urlbar, timer>>
              ELSE /\ load'[current_view(Win)] = "queued"
                   /\ IF HasChar(" ", txt) \/ ~HasChar(".", txt)
                      THEN StartsWith(loaded, SEARCH_PREFIX)
                      ELSE /\ HasScheme(loaded)
                           /\ ~HasScheme(txt) => loaded = "https://" \o txt]_vars

====
